---- MODULE Spec2Model ----
(***************************************************************************)
(* Model of the web-activity-logger browser extension: the content script  *)
(* (extension/content.js), the background service worker                   *)
(* (extension/background.js) and the session timeline they feed.           *)
(*                                                                         *)
(* DOM strings that the code manipulates character by character (tagName,  *)
(* id, className, innerText, attribute values) are sequences of            *)
(* one-character strings, so that trimming, splitting, joining,            *)
(* lower-casing and truncation are computed rather than assumed.           *)
(***************************************************************************)
EXTENDS Integers, Sequences, FiniteSets, TLC

\* ------------------------------------------------------------------ bounds
MaxClassLen == 3
MaxSiblings == 2
MaxAttrs == 2
MaxTextLen == 102
MaxFields == 2
MaxEvents == 2
MaxPageEvents == 1
MaxClock == 1
MaxNetwork == 1
MaxTimeline == 3
MaxLabels == 4
MaxDispatch == 2

\* ------------------------------------------------------- program constants
MAX_INNER_TEXT_LENGTH == 100

\* ------------------------------------------------------------ JS values
\* null and undefined are one-element sequences holding a marker that is no
\* character, so they differ from every string and compare with any of them
Null == <<"null">>
Undefined == <<"undefined">>

\* ------------------------------------------------------- string helpers
EmptyStr == <<>>

UpperChars == <<"A","B","C","D","E","F","G","H","I","J","K","L","M",
                "N","O","P","Q","R","S","T","U","V","W","X","Y","Z">>
LowerChars == <<"a","b","c","d","e","f","g","h","i","j","k","l","m",
                "n","o","p","q","r","s","t","u","v","w","x","y","z">>
Digits == <<"0","1","2","3","4","5","6","7","8","9">>

LowerChar(c) ==
    IF \E i \in DOMAIN UpperChars : UpperChars[i] = c
    THEN LowerChars[CHOOSE i \in DOMAIN UpperChars : UpperChars[i] = c]
    ELSE c

\* String.prototype.toLowerCase
ToLowerCase(s) == [i \in DOMAIN s |-> LowerChar(s[i])]

\* the characters the regular expression \s matches, of those in the model
IsWhitespace(c) == c \in {" ", "\t"}

\* String.prototype.trim
RECURSIVE Trim(_)
Trim(s) ==
    IF s = EmptyStr THEN s
    ELSE IF IsWhitespace(Head(s)) THEN Trim(Tail(s))
    ELSE IF IsWhitespace(s[Len(s)]) THEN Trim(SubSeq(s, 1, Len(s) - 1))
    ELSE s

\* String.prototype.split(/\s+/): the pieces between maximal runs of
\* whitespace; a leading or trailing run leaves an empty piece, and the
\* empty string splits into one empty piece.
RECURSIVE SplitFrom(_, _, _)
SplitFrom(s, i, cur) ==
    IF i > Len(s) THEN <<cur>>
    ELSE IF IsWhitespace(s[i])
         THEN IF i + 1 <= Len(s) /\ IsWhitespace(s[i + 1])
              THEN SplitFrom(s, i + 1, cur)
              ELSE <<cur>> \o SplitFrom(s, i + 1, EmptyStr)
         ELSE SplitFrom(s, i + 1, Append(cur, s[i]))

SplitWhitespace(s) == SplitFrom(s, 1, EmptyStr)

\* Array.prototype.filter(c => c) on an array of strings
FilterNonEmpty(parts) == SelectSeq(parts, LAMBDA p : p # EmptyStr)

\* Array.prototype.join
RECURSIVE Join(_, _)
Join(parts, sep) ==
    IF parts = <<>> THEN EmptyStr
    ELSE IF Len(parts) = 1 THEN parts[1]
    ELSE parts[1] \o sep \o Join(Tail(parts), sep)

\* the decimal numeral a template literal writes for a non-negative integer
RECURSIVE DecStr(_)
DecStr(n) ==
    IF n < 10 THEN <<Digits[n + 1]>>
    ELSE DecStr(n \div 10) \o <<Digits[(n % 10) + 1]>>

\* Array.prototype.indexOf: the 0-based index of the first occurrence, -1
\* when absent
IndexOf(seq, x) ==
    IF \E i \in DOMAIN seq : seq[i] = x
    THEN (CHOOSE i \in DOMAIN seq : seq[i] = x /\ \A j \in 1..(i - 1) : seq[j] # x) - 1
    ELSE -1

\* ------------------------------------------------------------ elements
(***************************************************************************)
(* An element is a record                                                  *)
(*   tagName   the DOM tagName (upper case for HTML, as authored for SVG)  *)
(*   attrs     the attributes present on the element: name -> value        *)
(*   svg       TRUE for an SVG element: its className is an                *)
(*             SVGAnimatedString object, not a string                      *)
(*   innerText the rendered text, or Undefined                             *)
(*   type, value  the form-control properties (Undefined when not a        *)
(*             control); value is the live content, not the attribute      *)
(*   siblings  the tagNames of parentElement.children, in document order;  *)
(*   pos       the element's own position in siblings, 0 without a parent  *)
(***************************************************************************)
HasAttribute(element, attr) == attr \in DOMAIN element.attrs
GetAttribute(element, attr) == element.attrs[attr]

\* element.id reflects the id attribute ("" when absent)
ElementId(element) ==
    IF HasAttribute(element, "id") THEN GetAttribute(element, "id") ELSE EmptyStr

\* typeof element.className === 'string'
ClassNameIsString(element) == ~element.svg

\* element.className of an HTML element reflects the class attribute
ClassName(element) ==
    IF HasAttribute(element, "class") THEN GetAttribute(element, "class") ELSE EmptyStr

HasParent(element) == element.pos # 0

NthChildOpen == <<":","n","t","h","-","c","h","i","l","d","(">>

\* the children of the parent with the element's tagName, each named by its
\* position among the children
SameTagSiblings(element) ==
    SelectSeq([i \in DOMAIN element.siblings |-> i],
              LAMBDA i : element.siblings[i] = element.tagName)

\* an index taken among all siblings instead of the same-tag ones
NthChildIndex_AllSiblings(element) ==
    IF HasParent(element) THEN element.pos ELSE 1

NthChildIndex(element) ==
    IF HasParent(element)
    THEN IndexOf(SameTagSiblings(element), element.pos) + 1
    ELSE 1

\* class tokens taken from a split that does not trim first and keeps the
\* empty pieces
ClassTokens_NoFilter(element) == SplitWhitespace(ClassName(element))

ClassTokens(element) == FilterNonEmpty(SplitWhitespace(Trim(ClassName(element))))

\* element.className is truthy: a non-empty string, or the SVG object
ClassNameTruthy(element) == element.svg \/ ClassName(element) # EmptyStr

\* a generateSelector that tries the class list before the id
generateSelector_ClassBeforeId(element) ==
    LET tagName == ToLowerCase(element.tagName) IN
    IF ClassNameTruthy(element) /\ ClassNameIsString(element)
       /\ Len(ClassTokens(element)) > 0
    THEN tagName \o <<".">> \o Join(ClassTokens(element), <<".">>)
    ELSE IF ElementId(element) # EmptyStr
         THEN <<"#">> \o ElementId(element)
         ELSE tagName \o NthChildOpen \o DecStr(NthChildIndex(element)) \o <<")">>

generateSelector(element) ==
    IF element.tagName = EmptyStr THEN Null
    ELSE LET tagName == ToLowerCase(element.tagName) IN
         IF ElementId(element) # EmptyStr
         THEN <<"#">> \o ElementId(element)
         ELSE IF /\ ClassNameTruthy(element)
                 /\ ClassNameIsString(element)
                 /\ Len(ClassTokens(element)) > 0
              THEN tagName \o <<".">> \o Join(ClassTokens(element), <<".">>)
              ELSE tagName \o NthChildOpen \o DecStr(NthChildIndex(element)) \o <<")">>

relevantAttrs == <<"id", "class", "name", "type", "href", "src", "value",
                   "placeholder", "data-testid">>

\* a getAttributes that emits every whitelisted name, null when absent
getAttributes_EmitAbsent(element) ==
    [attr \in {relevantAttrs[i] : i \in DOMAIN relevantAttrs}
        |-> IF HasAttribute(element, attr) THEN GetAttribute(element, attr) ELSE Null]

getAttributes(element) ==
    [attr \in {relevantAttrs[i] : i \in {j \in DOMAIN relevantAttrs :
                                          HasAttribute(element, relevantAttrs[j])}}
        |-> GetAttribute(element, attr)]

Ellipsis == <<".", ".", ".">>

\* a getInnerText that already clips text of exactly the maximum length
getInnerText_OffByOne(element) ==
    LET text == IF element.innerText \in {Undefined, Null, EmptyStr}
                THEN EmptyStr ELSE element.innerText
    IN IF Len(text) >= MAX_INNER_TEXT_LENGTH
       THEN SubSeq(text, 1, MAX_INNER_TEXT_LENGTH) \o Ellipsis
       ELSE text

getInnerText(element) ==
    LET text == IF element.innerText \in {Undefined, Null, EmptyStr}
                THEN EmptyStr ELSE element.innerText
    IN IF Len(text) > MAX_INNER_TEXT_LENGTH
       THEN SubSeq(text, 1, MAX_INNER_TEXT_LENGTH) \o Ellipsis
       ELSE text

Password == <<"p","a","s","s","w","o","r","d">>

\* a getInputValue that does not look at the field's type
getInputValue_NoMask(element) ==
    IF element.value \in {Undefined, Null, EmptyStr} THEN Null
    ELSE element.value

getInputValue(element) ==
    IF element.type = Password THEN Null
    ELSE IF element.value \in {Undefined, Null, EmptyStr} THEN Null
    ELSE element.value

Redacted == <<"[","R","E","D","A","C","T","E","D","]">>

\* new FormData(form).entries(): one (name, value) pair per form control with
\* a non-empty name, in tree order
FormDataEntries(form) ==
    LET named == SelectSeq(form.descendants,
                     LAMBDA e : /\ e.type # Undefined
                                /\ HasAttribute(e, "name")
                                /\ GetAttribute(e, "name") # EmptyStr)
    IN [i \in DOMAIN named |-> <<GetAttribute(named[i], "name"), named[i].value>>]

\* form.querySelector('[name="..."]') is the first descendant carrying that
\* name attribute; it is null when there is none
NameMatches(form, name) ==
    {i \in DOMAIN form.descendants :
        /\ HasAttribute(form.descendants[i], "name")
        /\ GetAttribute(form.descendants[i], "name") = name}

QuerySelectorFinds(form, name) == NameMatches(form, name) # {}

QuerySelectorByName(form, name) ==
    form.descendants[CHOOSE i \in NameMatches(form, name) :
                        \A j \in NameMatches(form, name) : i <= j]

\* the value the loop body stores for one FormData entry
FormValueFor(form, name, value) ==
    IF /\ QuerySelectorFinds(form, name)
       /\ QuerySelectorByName(form, name).type = Password
    THEN Redacted
    ELSE value

\* values after the loop has run over the first n entries: a later entry
\* with the same name overwrites an earlier one
RECURSIVE FormValuesUpTo(_, _)
FormValuesUpTo(form, n) ==
    IF n = 0 THEN <<>>
    ELSE LET prev == FormValuesUpTo(form, n - 1)
             entry == FormDataEntries(form)[n]
         IN [k \in DOMAIN prev \cup {entry[1]} |->
                IF k = entry[1] THEN FormValueFor(form, entry[1], entry[2])
                ELSE prev[k]]

getFormValues(form) == FormValuesUpTo(form, Len(FormDataEntries(form)))

\* ------------------------------------------------------- log entries
PageUrl == <<"u", "r", "l">>

\* { ...base, ...extraData }: the keys of extraData override those of base
Spread(base, extraData) == extraData @@ base

\* a createLogEntry whose base record takes the value from the element
createLogEntry_ElementValue(eventType, element, extraData, timestamp) ==
    Spread([timestamp |-> timestamp,
            type |-> "interaction",
            event |-> eventType,
            selector |-> generateSelector(element),
            tagName |-> element.tagName,
            attributes |-> getAttributes(element),
            value |-> IF element.value \in {Undefined, EmptyStr} THEN Null
                      ELSE element.value,
            innerText |-> getInnerText(element),
            url |-> PageUrl],
           extraData)

createLogEntry(eventType, element, extraData, timestamp) ==
    Spread([timestamp |-> timestamp,
            type |-> "interaction",
            event |-> eventType,
            selector |-> generateSelector(element),
            tagName |-> element.tagName,
            attributes |-> getAttributes(element),
            value |-> Null,
            innerText |-> getInnerText(element),
            url |-> PageUrl],
           extraData)

\* the keys of a log entry in the order JSON.stringify writes them
EntryKeys(entry) ==
    <<"timestamp", "type", "event", "selector", "tagName", "attributes",
      "value", "innerText", "url">>
    \o (IF "formValues" \in DOMAIN entry THEN <<"formValues">> ELSE <<>>)
    \o (IF "tabId" \in DOMAIN entry THEN <<"tabId">> ELSE <<>>)
    \o (IF "tabUrl" \in DOMAIN entry THEN <<"tabUrl">> ELSE <<>>)

\* JSON.stringify(logEntry): the members as (key, value) pairs in key order
JSONStringify(entry) ==
    [i \in DOMAIN EntryKeys(entry) |-> <<EntryKeys(entry)[i], entry[EntryKeys(entry)[i]]>>]

\* the object a JSON text of that shape parses to
JSONParse(json) ==
    [k \in {json[i][1] : i \in DOMAIN json} |->
        json[CHOOSE i \in DOMAIN json :
                json[i][1] = k /\ \A j \in DOMAIN json : json[j][1] = k => j <= i][2]]

EventPrefix == "WEB_LOGGER_EVENT:"
DebugPrefix == "Web Logger: Could not send event"

ConsoleLog(logEntry) == [prefix |-> EventPrefix, json |-> JSONStringify(logEntry)]
ConsoleDebug == [prefix |-> DebugPrefix, json |-> <<>>]

\* ------------------------------------------------- inputs of the functions
TagDIV == <<"D","I","V">>
TagINPUT == <<"I","N","P","U","T">>
TagFORM == <<"F","O","R","M">>
TagSvg == <<"s","v","g">>

Tags == {TagDIV, TagINPUT, TagSvg}

StrsUpTo(alphabet, n) == UNION {[1..k -> alphabet] : k \in 0..n}

\* the attribute maps over at most n of the names, values[a] the values
\* drawn for name a
AttrMaps(names, n, values) ==
    UNION {{f \in [S -> UNION {values[a] : a \in S}] : \A a \in S : f[a] \in values[a]}
             : S \in {T \in SUBSET names : Cardinality(T) <= n}}

MkElement(tagName, attrs, innerText, siblings, pos) ==
    [tagName |-> tagName, attrs |-> attrs, svg |-> (tagName = TagSvg),
     innerText |-> innerText, type |-> Undefined, value |-> Undefined,
     siblings |-> siblings, pos |-> pos]

\* where an element of the given tag can sit: without a parent, or at any
\* position among up to n children
Positions(tagName, n) ==
    {<<EmptyStr, 0>>} \cup
    {<<sib, pos>> \in (UNION {[1..k -> Tags] : k \in 1..n}) \X (1..n) :
        pos <= Len(sib) /\ sib[pos] = tagName}

ClassChars == {" ", "a", "b"}

SelectorAttrValues(classLen) ==
    [a \in {"id", "class"} |->
        IF a = "id" THEN {EmptyStr, <<"a">>, <<"b", "a">>}
        ELSE StrsUpTo(ClassChars, classLen)]

\* elements with class attributes of up to classLen characters among up to
\* siblings children
SelectorInputs(classLen, siblings) ==
    UNION {{MkElement(t, attrs, <<"x">>, p[1], p[2]) :
               attrs \in AttrMaps({"id", "class"}, 2, SelectorAttrValues(classLen)),
               p \in Positions(t, siblings)} : t \in Tags}

\* the documents of up to n elements, the children of one parent: each with
\* a tag and, possibly, an id and a class
DocTags == {TagDIV, TagINPUT}
DocAttrValues ==
    [a \in {"id", "class"} |->
        IF a = "id" THEN {<<"a">>, <<"b">>} ELSE {<<"a">>, <<"b", " ", "a">>}]

Documents(n) ==
    UNION {{[i \in 1..k |->
                MkElement(c[i][1], c[i][2], <<"x">>, [j \in 1..k |-> c[j][1]], i)] :
               c \in [1..k -> DocTags \X AttrMaps({"id", "class"}, 2, DocAttrValues)]}
             : k \in 1..n}

\* attribute names an element may carry: the whitelist and two others
AttrNames == {relevantAttrs[i] : i \in DOMAIN relevantAttrs} \cup {"style", "onclick"}

PlainAttrValues == [a \in AttrNames |-> {EmptyStr, <<"v">>}]

\* elements with up to n attributes
AttrInputs(n) ==
    {MkElement(TagDIV, attrs, <<"x">>, EmptyStr, 0) :
        attrs \in AttrMaps(AttrNames, n, PlainAttrValues)}

\* a text of n characters, the k-th rotation of the pattern abcabc...
TextChars == <<"a", "b", "c">>
MkText(n, k) == [i \in 1..n |-> TextChars[((i + k) % 3) + 1]]

\* elements with a text of up to textLen characters
TextInputs(textLen) ==
    {MkElement(TagDIV, <<>>, text, EmptyStr, 0) :
        text \in {Undefined} \cup {MkText(n, k) : n \in 0..textLen, k \in 0..2}}

FnInputs(classLen, siblings, attrs, textLen) ==
    SelectorInputs(classLen, siblings) \cup AttrInputs(attrs) \cup TextInputs(textLen)

\* ------------------------------------------------------------ the page
\* form controls of the page: INPUT children of one FORM
FieldNames == {<<"u">>, <<"p">>}
FieldTypes == {<<"t","e","x","t">>, Password}
FieldValues == {EmptyStr, <<"s">>}

MkField(name, type, value, n, pos) ==
    [tagName |-> TagINPUT, attrs |-> [name |-> name, type |-> type], svg |-> FALSE,
     innerText |-> EmptyStr, type |-> type, value |-> value,
     siblings |-> [i \in 1..n |-> TagINPUT], pos |-> pos]

MkForm(fields) ==
    [tagName |-> TagFORM, attrs |-> <<>>, svg |-> FALSE, innerText |-> EmptyStr,
     type |-> Undefined, value |-> Undefined, siblings |-> <<TagFORM>>, pos |-> 1,
     descendants |-> fields]

\* the forms of up to maxFields fields
Forms(maxFields) ==
    UNION {{MkForm([i \in 1..n |-> MkField(f[i][1], f[i][2], f[i][3], n, i)]) :
               f \in [1..n -> FieldNames \X FieldTypes \X FieldValues]}
             : n \in 0..maxFields}

\* the field as the page renders it when it carries its content in the
\* markup: <input value="...">
Prefilled(field) ==
    [field EXCEPT !.attrs = [a \in DOMAIN field.attrs \cup {"value"} |->
                                IF a = "value" THEN field.value ELSE field.attrs[a]]]

\* the form with every password field prefilled
PrefilledForm(page) ==
    [page EXCEPT !.descendants =
        [i \in DOMAIN page.descendants |->
            IF page.descendants[i].type = Password
            THEN Prefilled(page.descendants[i]) ELSE page.descendants[i]]]

\* the pages with password fields empty, typed into or prefilled
MaskPages(maxFields) ==
    Forms(maxFields) \cup {PrefilledForm(page) : page \in Forms(maxFields)}

\* ---------------------------------------------------------------- state
VARIABLES
    fnArg,          \* the element a function of the content script is applied to
    fnOut,          \* the last call of the function or operation under study:
                    \* its name with its result or the state before it, or NoCall
    form,           \* the page's form element with its controls
    now,            \* Date.now()
    listeners,      \* listeners attachListeners added: (node, event type)
    dispatch,       \* the DOM event being dispatched: the listener runs still
                    \* to come, and the number of events dispatched so far
    runtimeMsgs,    \* chrome.runtime messages on their way to the worker
    consoleLines,   \* console output not yet read by the recorder
    windowEvents,   \* window.__webLoggerEvents__
    contextValid,   \* the extension context is valid: sendMessage works
    windowWritable, \* the content script can reach window.__webLoggerEvents__
    uncaught,       \* exceptions that escaped an event handler
    nCalls,         \* event handler runs so far
    capturedEvents, \* the background worker's buffer
    response,       \* the worker's reply on its way to the recorder
    history,        \* history: what the worker received, returned and cleared
    session,        \* the recorder's session: times and events
    offeredKeys,    \* history: content keys handed to add_event while open
    netCount        \* network exchanges recorded so far

fnVars == <<fnArg, fnOut>>
domVars == <<listeners, dispatch>>
pageVars == <<form, now, listeners, dispatch>>
channelVars == <<runtimeMsgs, consoleLines, windowEvents>>
envVars == <<contextValid, windowWritable>>
contentVars == <<runtimeMsgs, consoleLines, windowEvents, contextValid,
                 windowWritable, uncaught, nCalls>>
workerVars == <<capturedEvents, response, history>>
recorderVars == <<session, offeredKeys, netCount>>
vars == <<fnArg, fnOut, form, now, listeners, dispatch, runtimeMsgs, consoleLines,
          windowEvents, contextValid, windowWritable, uncaught, nCalls,
          capturedEvents, response, history, session, offeredKeys, netCount>>

NoCall == [fn |-> "none"]
\* window.__webLoggerEvents__ before anything defined it
WindowUndefined == [defined |-> FALSE, items |-> <<>>]
\* the entry put in front of the array: unshift instead of push
WindowPush_Front(win, entry) == [defined |-> TRUE, items |-> <<entry>> \o win.items]

\* window.__webLoggerEvents__.push(entry), the array created when undefined
WindowPush(win, entry) == [defined |-> TRUE, items |-> Append(win.items, entry)]
NoResponse == [none |-> TRUE]
\* no DOM event is being dispatched
NoDispatch == [count |-> 0, pending |-> <<>>]
\* the worker's history before it handled anything; it is kept only in the
\* specifications that observe the worker (on)
NoHistory == [on |-> FALSE, received |-> <<>>, returned |-> <<>>, cleared |-> 0,
              last |-> "none", via |-> "none", relayThrew |-> FALSE]
\* the end time of a session that is not finalized (None)
NoTime == 0 - 1
StartUrl == PageUrl

\* create_session(start_url)
create_session(startUrl, startTime) ==
    [startTime |-> startTime, endTime |-> NoTime, startUrl |-> startUrl,
     domain |-> <<"d">>, events |-> <<>>]

CoreInit ==
    /\ now = 0
    /\ listeners = {}
    /\ dispatch = NoDispatch
    /\ runtimeMsgs = <<>>
    /\ consoleLines = <<>>
    /\ windowEvents = WindowUndefined
    /\ contextValid = TRUE
    /\ uncaught = 0
    /\ nCalls = 0
    /\ capturedEvents = <<>>
    /\ response = NoResponse
    /\ offeredKeys = {}
    /\ netCount = 0

PipelineInit ==
    /\ CoreInit
    /\ history = NoHistory
    /\ session = create_session(StartUrl, 0)

FnInit ==
    /\ fnArg \in FnInputs(MaxClassLen, MaxSiblings, MaxAttrs, MaxTextLen)
    /\ fnOut = NoCall
    /\ form = MkForm(<<>>)
    /\ windowWritable = TRUE
    /\ PipelineInit

CallGenerateSelector ==
    /\ fnOut = NoCall
    /\ fnOut' = [fn |-> "generateSelector", result |-> generateSelector(fnArg)]
    /\ UNCHANGED <<fnArg, pageVars, contentVars, workerVars, recorderVars>>

CallGetAttributes ==
    /\ fnOut = NoCall
    /\ fnOut' = [fn |-> "getAttributes", result |-> getAttributes(fnArg)]
    /\ UNCHANGED <<fnArg, pageVars, contentVars, workerVars, recorderVars>>

CallGetInnerText ==
    /\ fnOut = NoCall
    /\ fnOut' = [fn |-> "getInnerText", result |-> getInnerText(fnArg)]
    /\ UNCHANGED <<fnArg, pageVars, contentVars, workerVars, recorderVars>>

\* generateSelector applied to every element of the document
CallGenerateSelectorAll ==
    /\ fnOut = NoCall
    /\ fnOut' = [fn |-> "generateSelectorAll",
                 result |-> [i \in DOMAIN fnArg |-> generateSelector(fnArg[i])]]
    /\ UNCHANGED <<fnArg, pageVars, contentVars, workerVars, recorderVars>>

FnNext == CallGenerateSelector \/ CallGetAttributes \/ CallGetInnerText

SpecFn == FnInit /\ [][FnNext]_vars

\* ------------------------------------------------- the content script
\* sendEvent without its try/catch blocks: a throwing channel ends the call
sendEvent_NoCatch(logEntry) ==
    IF ~contextValid
    THEN /\ uncaught' = uncaught + 1
         /\ UNCHANGED <<runtimeMsgs, consoleLines, windowEvents>>
    ELSE /\ runtimeMsgs' = Append(runtimeMsgs, [type |-> "interaction", data |-> logEntry])
         /\ consoleLines' = Append(consoleLines, ConsoleLog(logEntry))
         /\ IF ~windowWritable
            THEN uncaught' = uncaught + 1 /\ UNCHANGED windowEvents
            ELSE /\ windowEvents' = WindowPush(windowEvents, logEntry)
                 /\ UNCHANGED uncaught

\* chrome.runtime.sendMessage throws when the extension context is
\* invalidated, and the window buffer when the page's window is out of reach;
\* both are caught
sendEvent(logEntry) ==
    /\ runtimeMsgs' = IF contextValid
                      THEN Append(runtimeMsgs, [type |-> "interaction", data |-> logEntry])
                      ELSE runtimeMsgs
    /\ consoleLines' = (IF contextValid THEN consoleLines
                        ELSE Append(consoleLines, ConsoleDebug))
                       \o <<ConsoleLog(logEntry)>>
    /\ windowEvents' = IF windowWritable THEN WindowPush(windowEvents, logEntry)
                       ELSE windowEvents
    /\ UNCHANGED uncaught

\* one run of an event handler: the entry it builds goes to sendEvent
Run(logEntry) ==
    /\ nCalls' = nCalls + 1
    /\ sendEvent(logEntry)
    /\ UNCHANGED <<fnVars, form, now, listeners, envVars, workerVars, recorderVars>>

\* the run of the document's listener for an event on a page whose elements
\* carry no listeners of their own
Handle(logEntry) ==
    /\ nCalls < MaxEvents
    /\ Run(logEntry)
    /\ UNCHANGED dispatch

\* the extension is reloaded or removed while the page stays open
InvalidateContext ==
    /\ contextValid
    /\ contextValid' = FALSE
    /\ UNCHANGED <<fnVars, pageVars, channelVars, windowWritable, uncaught, nCalls,
                   workerVars, recorderVars>>

\* the elements an event can target: the form and its controls
Targets == {form} \cup {form.descendants[i] : i \in DOMAIN form.descendants}
Controls == {form.descendants[i] : i \in DOMAIN form.descendants}

\* the entry each of the four handlers builds for an event on the element
\* when Date.now() is timestamp
LogEntryAt(eventType, element, timestamp) ==
    IF eventType = "click" THEN createLogEntry("click", element, <<>>, timestamp)
    ELSE IF eventType = "submit"
    THEN createLogEntry("submit", element, [formValues |-> getFormValues(element)],
                        timestamp)
    ELSE createLogEntry(eventType, element, [value |-> getInputValue(element)], timestamp)

LogEntryOf(eventType, element) == LogEntryAt(eventType, element, now)

handleClick ==
    \E element \in Targets : Handle(LogEntryOf("click", element))

handleInput ==
    \E element \in Controls : Handle(LogEntryOf("input", element))

handleChange ==
    \E element \in Controls : Handle(LogEntryOf("change", element))

handleSubmit == Handle(LogEntryOf("submit", form))

\* ------------------------------------------------------ the listeners
EventTypes == {"click", "input", "change", "submit"}

ControlTags == {TagINPUT, <<"S","E","L","E","C","T">>,
                <<"T","E","X","T","A","R","E","A">>}
InteractiveTags == ControlTags \cup {<<"A">>, <<"B","U","T","T","O","N">>}

\* element.matches(interactiveSelector)
MatchesInteractive(element) ==
    \/ element.tagName \in InteractiveTags
    \/ HasAttribute(element, "onclick")
    \/ HasAttribute(element, "role")
          /\ GetAttribute(element, "role") = <<"b","u","t","t","o","n">>
    \/ HasAttribute(element, "tabindex")

\* element.matches('input, select, textarea')
MatchesControl(element) == element.tagName \in ControlTags

\* the nodes of the page: 0 is the form, i its i-th control
Nodes == {0} \cup DOMAIN form.descendants
NodeElement(node) == IF node = 0 THEN form ELSE form.descendants[node]

\* the listeners attachListeners registers on the node's element
attachListeners(node) ==
    LET element == NodeElement(node) IN
    (IF MatchesInteractive(element) THEN {<<node, "click">>} ELSE {})
    \cup (IF MatchesControl(element)
          THEN {<<node, "input">>, <<node, "change">>} ELSE {})
    \cup (IF element.tagName = TagFORM THEN {<<node, "submit">>} ELSE {})

\* the node and the nodes below it that querySelectorAll selects
Subtree(node) ==
    IF node = 0
    THEN {0} \cup {i \in DOMAIN form.descendants :
                     \/ MatchesInteractive(form.descendants[i])
                     \/ form.descendants[i].tagName = TagFORM}
    ELSE {node}

\* the MutationObserver callback for one added element node: the node is
\* inserted, or moved, after the page was loaded
OnMutation ==
    /\ dispatch.pending = <<>>
    /\ \E node \in Nodes :
          listeners' = listeners \cup UNION {attachListeners(n) : n \in Subtree(node)}
    /\ UNCHANGED <<fnVars, form, now, dispatch, contentVars, workerVars, recorderVars>>

\* the nodes an event passes on its way to the target, below the document
PathTo(target) == IF target = 0 THEN <<0>> ELSE <<0, target>>

\* the listener runs one event causes: the document's capturing listener,
\* registered for all four types by initializeListeners, then the listeners
\* of that type on the path, each with the event's target
ListenerRuns(eventType, target) ==
    <<[on |-> "document", type |-> eventType, target |-> target]>>
    \o [i \in DOMAIN SelectSeq(PathTo(target), LAMBDA n : <<n, eventType>> \in listeners)
          |-> [on |-> "element", type |-> eventType, target |-> target]]

\* the targets an event of the type can have
TargetsOfType(eventType) ==
    IF eventType = "click" THEN Nodes
    ELSE IF eventType = "submit" THEN {0}
    ELSE DOMAIN form.descendants

\* the user acts on an element: the browser dispatches one event
DispatchEvent ==
    /\ dispatch.pending = <<>>
    /\ dispatch.count < MaxDispatch
    /\ \E eventType \in EventTypes :
          \E target \in TargetsOfType(eventType) :
              dispatch' = [count |-> dispatch.count + 1,
                           pending |-> ListenerRuns(eventType, target)]
    /\ UNCHANGED <<fnVars, form, now, listeners, contentVars, workerVars, recorderVars>>

\* the next listener of the event being dispatched runs its handler
RunListener ==
    /\ dispatch.pending # <<>>
    /\ LET run == Head(dispatch.pending) IN
       Run(LogEntryOf(run.type, NodeElement(run.target)))
    /\ dispatch' = [dispatch EXCEPT !.pending = Tail(@)]

\* the clock advances
Tick ==
    /\ now < MaxClock
    /\ now' = now + 1
    /\ UNCHANGED <<fnVars, form, domVars, contentVars, workerVars, recorderVars>>

\* ------------------------------------------------ the background worker
TabId == 1
TabUrl == PageUrl

\* a listener that stores every message, whatever its type
onMessage_AnyType(buffer, message) ==
    Append(buffer, [tabId |-> TabId, tabUrl |-> TabUrl] @@ message.data)

\* chrome.runtime.onMessage listener: an interaction message is stored with
\* the tab's id and url at the end of the buffer; any other message is not
onMessage(buffer, message) ==
    IF message.type = "interaction"
    THEN Append(buffer, [tabId |-> TabId, tabUrl |-> TabUrl] @@ message.data)
    ELSE buffer

\* the history after a step of the worker, when it is kept
Note(update) == IF history.on THEN update ELSE history

\* the worker handles the next runtime message; the newInteraction relay is
\* best effort: chrome.runtime.sendMessage may throw, and the throw is caught
OnMessage ==
    /\ runtimeMsgs # <<>>
    /\ \E relayThrows \in BOOLEAN :
         LET message == Head(runtimeMsgs) IN
         /\ capturedEvents' = onMessage(capturedEvents, message)
         /\ history' = Note(
                IF message.type = "interaction"
                THEN [history EXCEPT !.received = Append(@, message.data),
                                     !.last = message.type,
                                     !.via = "runtime",
                                     !.relayThrew = @ \/ relayThrows]
                ELSE [history EXCEPT !.last = message.type, !.via = "runtime"])
    /\ runtimeMsgs' = Tail(runtimeMsgs)
    /\ UNCHANGED <<fnVars, pageVars, consoleLines, windowEvents, envVars, uncaught,
                   nCalls, response, recorderVars>>

\* the request types the listeners know
RequestTypes == {"getEvents", "clearEvents", "getAndClearEvents"}

\* a getEvents that empties the buffer as well
BufferAfter_GetClears(buffer, type) ==
    IF type \in RequestTypes THEN <<>> ELSE buffer

\* capturedEvents after a request of the given type was handled
BufferAfter(buffer, type) ==
    IF type \in {"clearEvents", "getAndClearEvents"} THEN <<>> ELSE buffer

\* a getAndClearEvents that empties the buffer before it copies it
ReplyTo_ClearBeforeCopy(buffer, type) ==
    IF type = "getEvents" THEN [events |-> buffer]
    ELSE IF type = "clearEvents" THEN [success |-> TRUE]
    ELSE IF type = "getAndClearEvents" THEN [events |-> <<>>]
    ELSE NoResponse

\* what sendResponse / port.postMessage is given for a request of the type;
\* a request of another type gets no reply
ReplyTo(buffer, type) ==
    IF type = "getEvents" THEN [events |-> buffer]
    ELSE IF type = "clearEvents" THEN [success |-> TRUE]
    ELSE IF type = "getAndClearEvents" THEN [events |-> buffer]
    ELSE NoResponse

\* one request handled by the onMessageExternal listener or by the listener
\* of a port; the consumer sends a request when it holds no unread reply
OnRequest(via, type) ==
    /\ response = NoResponse
    /\ response' = ReplyTo(capturedEvents, type)
    /\ capturedEvents' = BufferAfter(capturedEvents, type)
    /\ history' = Note(
           [history EXCEPT
               !.last = type,
               !.via = via,
               !.returned = IF type = "getAndClearEvents"
                            THEN @ \o ReplyTo(capturedEvents, type).events ELSE @,
               !.cleared = IF type \in {"clearEvents", "getAndClearEvents"}
                           THEN Len(history.received) ELSE @])
    /\ UNCHANGED <<fnVars, pageVars, contentVars, recorderVars>>

\* chrome.runtime.onMessageExternal, one action per request type
GetEvents == OnRequest("external", "getEvents")
ClearEvents == OnRequest("external", "clearEvents")
GetAndClearEvents == OnRequest("external", "getAndClearEvents")

\* chrome.runtime.onConnect: only a port named web-logger gets a listener,
\* and that listener handles the same three types
PortNames == {"web-logger", "devtools"}

OnPortMessage(name, type) ==
    IF name = "web-logger"
    THEN OnRequest("port", type)
    ELSE /\ history' = Note([history EXCEPT !.last = "ignored", !.via = "port"])
         /\ UNCHANGED <<fnVars, pageVars, contentVars, capturedEvents, response,
                        recorderVars>>

PortMessage ==
    \E name \in PortNames, type \in RequestTypes \cup {"ping"} :
        OnPortMessage(name, type)

\* the consumer drains the buffer through its port
PortGetAndClearEvents == OnPortMessage("web-logger", "getAndClearEvents")

\* a message of another type on chrome.runtime: the relay of another
\* context, or any other extension page
OtherMessage ==
    /\ Len(runtimeMsgs) < MaxEvents
    /\ runtimeMsgs' = Append(runtimeMsgs, [type |-> "newInteraction",
                                           data |-> [timestamp |-> now]])
    /\ UNCHANGED <<fnVars, pageVars, consoleLines, windowEvents, envVars, uncaught,
                   nCalls, workerVars, recorderVars>>

\* ------------------------------------------------------- the recorder
\* the content key of an interaction event
EventKey(event) == <<event.timestamp, event.selector, event.event>>

IsDuplicate(events, event) ==
    /\ event.type = "interaction"
    /\ \E i \in DOMAIN events :
          events[i].type = "interaction" /\ EventKey(events[i]) = EventKey(event)

\* an add_event that appends whatever it is given
add_event_NoDedup(sess, event) ==
    IF sess.endTime # NoTime THEN sess
    ELSE [sess EXCEPT !.events = Append(@, event)]

\* add_event(session, event): rejected once the session is finalized; an
\* interaction whose content key is already in the timeline is dropped
add_event(sess, event) ==
    IF sess.endTime # NoTime THEN sess
    ELSE IF IsDuplicate(sess.events, event) THEN sess
    ELSE [sess EXCEPT !.events = Append(@, event)]

RECURSIVE AddAll(_, _)
AddAll(sess, events) ==
    IF events = <<>> THEN sess
    ELSE AddAll(add_event(sess, Head(events)), Tail(events))

\* the content keys of the interactions handed to add_event while the
\* session is open
OfferedKeys(events) ==
    IF session.endTime # NoTime THEN {}
    ELSE {EventKey(events[i]) : i \in {j \in DOMAIN events :
                                          events[j].type = "interaction"}}

\* the events of the worker's reply are added to the timeline
OnResponse ==
    /\ response # NoResponse
    /\ LET events == IF "events" \in DOMAIN response THEN response.events ELSE <<>>
       IN /\ session' = AddAll(session, events)
          /\ offeredKeys' = offeredKeys \cup OfferedKeys(events)
    /\ response' = NoResponse
    /\ UNCHANGED <<fnVars, pageVars, contentVars, capturedEvents, history, netCount>>

\* console handler: a line with the event prefix is parsed and added, any
\* other line is ignored
OnConsoleMessage ==
    /\ consoleLines # <<>>
    /\ LET line == Head(consoleLines) IN
       IF line.prefix = EventPrefix
       THEN /\ session' = add_event(session, JSONParse(line.json))
            /\ offeredKeys' = offeredKeys \cup OfferedKeys(<<JSONParse(line.json)>>)
       ELSE UNCHANGED <<session, offeredKeys>>
    /\ consoleLines' = Tail(consoleLines)
    /\ UNCHANGED <<fnVars, pageVars, runtimeMsgs, windowEvents, envVars, uncaught,
                   nCalls, workerVars, netCount>>

\* poll_extension_events: the page's buffer is read and drained
poll_extension_events ==
    /\ windowEvents.defined
    /\ windowEvents.items # <<>>
    /\ session' = AddAll(session, windowEvents.items)
    /\ offeredKeys' = offeredKeys \cup OfferedKeys(windowEvents.items)
    /\ windowEvents' = [windowEvents EXCEPT !.items = <<>>]
    /\ UNCHANGED <<fnVars, pageVars, runtimeMsgs, consoleLines, envVars, uncaught,
                   nCalls, workerVars, netCount>>

\* the network producer records one completed exchange
CaptureNetwork ==
    /\ netCount < MaxNetwork
    /\ session' = add_event(session, [type |-> "network", timestamp |-> now,
                                      url |-> StartUrl])
    /\ netCount' = netCount + 1
    /\ UNCHANGED <<fnVars, pageVars, contentVars, workerVars, offeredKeys>>

\* interactions sort before network events of the same timestamp
KindRank(event) == IF event.type = "interaction" THEN 0 ELSE 1

\* an order by timestamp alone
SortsBefore_TimestampOnly(a, b) == a.timestamp < b.timestamp

SortsBefore(a, b) ==
    \/ a.timestamp < b.timestamp
    \/ a.timestamp = b.timestamp /\ KindRank(a) < KindRank(b)

\* stable insertion: after every element that does not sort after it
InsertSorted(sorted, event) ==
    LET k == Cardinality({i \in DOMAIN sorted : ~SortsBefore(event, sorted[i])})
    IN SubSeq(sorted, 1, k) \o <<event>> \o SubSeq(sorted, k + 1, Len(sorted))

\* a sort that leaves the arrival order as it is
SortEvents_ArrivalOrder(events) == events

\* a sort that keeps one event per timestamp
RECURSIVE SortEvents_DropTies(_)
SortEvents_DropTies(events) ==
    IF events = <<>> THEN <<>>
    ELSE LET rest == SortEvents_DropTies(SubSeq(events, 1, Len(events) - 1))
             last == events[Len(events)]
         IN IF \E i \in DOMAIN rest : rest[i].timestamp = last.timestamp
            THEN rest ELSE InsertSorted(rest, last)

RECURSIVE SortEvents(_)
SortEvents(events) ==
    IF events = <<>> THEN <<>>
    ELSE InsertSorted(SortEvents(SubSeq(events, 1, Len(events) - 1)),
                      events[Len(events)])

\* a finalize_session that sets the end time and sorts on every call
finalize_session_EveryCall(sess, endTime) ==
    [sess EXCEPT !.endTime = endTime, !.events = SortEvents(@)]

\* finalize_session: sets the end time and sorts, once
finalize_session(sess, endTime) ==
    IF sess.endTime # NoTime THEN sess
    ELSE [sess EXCEPT !.endTime = endTime, !.events = SortEvents(@)]

Finalize ==
    /\ session' = finalize_session(session, now)
    /\ session' # session
    /\ UNCHANGED <<fnVars, pageVars, contentVars, workerVars, offeredKeys, netCount>>

\* a network event of the timeline
OtherUrl == <<"o">>

NetworkEvent(timestamp, url) ==
    [type |-> "network", timestamp |-> timestamp, url |-> url]

\* ------------------------------------------------ the domain scope
Localhost == <<"l","o","c","a","l","h","o","s","t">>
Schemes == {<<"h","t","t","p",":","/","/">>, <<"h","t","t","p","s",":","/","/">>}

StartsWith(str, prefix) ==
    Len(str) >= Len(prefix) /\ SubSeq(str, 1, Len(prefix)) = prefix

EndsWith(str, suffix) ==
    Len(str) >= Len(suffix)
    /\ SubSeq(str, Len(str) - Len(suffix) + 1, Len(str)) = suffix

\* the part of str before the first character of stops, all of it when none
\* occurs
RECURSIVE Before(_, _)
Before(str, stops) ==
    IF str = EmptyStr \/ Head(str) \in stops THEN EmptyStr
    ELSE <<Head(str)>> \o Before(Tail(str), stops)

\* the host of a URL, lower case and without port; Null when the URL has no
\* scheme and authority to take it from
Hostname(url) ==
    IF \E scheme \in Schemes : StartsWith(url, scheme)
    THEN LET scheme == CHOOSE sc \in Schemes : StartsWith(url, sc)
             authority == Before(SubSeq(url, Len(scheme) + 1, Len(url)), {"/"})
             host == IF authority # EmptyStr /\ Head(authority) = "["
                     THEN Before(Tail(authority), {"]"})
                     ELSE Before(authority, {":"})
         IN IF host = EmptyStr THEN Null ELSE ToLowerCase(host)
    ELSE Null

\* the pieces of str between dots
RECURSIVE SplitDots(_, _)
SplitDots(str, cur) ==
    IF str = EmptyStr THEN <<cur>>
    ELSE IF Head(str) = "." THEN <<cur>> \o SplitDots(Tail(str), EmptyStr)
    ELSE SplitDots(Tail(str), Append(cur, Head(str)))

IsDigits(str) ==
    str # EmptyStr /\ \A i \in DOMAIN str : \E k \in DOMAIN Digits : Digits[k] = str[i]

\* an IPv4 literal is four groups of digits, an IPv6 literal holds a colon
_is_ip_address(hostname) ==
    \/ LET groups == SplitDots(hostname, EmptyStr)
       IN Len(groups) = 4 /\ \A i \in 1..4 : IsDigits(groups[i])
    \/ \E i \in DOMAIN hostname : hostname[i] = ":"

\* a scope test that accepts every host ending in the root domain
is_subdomain_of_AnySuffix(url, root_domain) ==
    LET hostname == Hostname(url) IN
    IF hostname = Null THEN FALSE
    ELSE IF hostname = root_domain THEN TRUE
    ELSE IF _is_ip_address(hostname) \/ hostname = Localhost THEN FALSE
    ELSE EndsWith(hostname, root_domain)

\* is_subdomain_of(url, root_domain): the host is the root domain or one of
\* its subdomains; an IP literal or localhost only matches itself; a URL
\* without a host is out of scope
is_subdomain_of(url, root_domain) ==
    LET hostname == Hostname(url) IN
    IF hostname = Null THEN FALSE
    ELSE IF hostname = root_domain THEN TRUE
    ELSE IF _is_ip_address(hostname) \/ hostname = Localhost THEN FALSE
    ELSE EndsWith(hostname, <<".">> \o root_domain)

\* hosts of up to n labels
HostLabels == {<<"d">>, <<"a", "d">>, <<"1">>, Localhost}
Hosts(n) == {Join(labels, <<".">>) : labels \in UNION {[1..k -> HostLabels] : k \in 1..n}}

IPv6Loopback == <<":", ":", "1">>
RootDomains == Hosts(2) \cup {<<"1",".","1",".","1",".","1">>, IPv6Loopback}

\* a URL in each of its shapes: with and without port, an IPv6 authority, and
\* texts without scheme or host
ScopeUrls(n) ==
    UNION {{<<"h","t","t","p",":","/","/">> \o host \o <<"/">>,
            <<"h","t","t","p","s",":","/","/">> \o host \o <<":", "8", "/", "x">>,
            host}
              : host \in Hosts(n)}
    \cup {<<"h","t","t","p",":","/","/","[">> \o IPv6Loopback \o <<"]",":","8","/">>,
          <<"h","t","t","p",":","/","/">>, EmptyStr}

\* the network producer meets a request: it is recorded when in scope and
\* dropped silently otherwise
CaptureRequest ==
    /\ fnOut = NoCall
    /\ LET inScope == is_subdomain_of(fnArg, session.domain) IN
       /\ fnOut' = [fn |-> "is_subdomain_of", result |-> inScope]
       /\ session' = IF inScope THEN add_event(session, NetworkEvent(now, fnArg))
                      ELSE session
    /\ UNCHANGED <<fnArg, pageVars, contentVars, workerVars, offeredKeys, netCount>>

\* the timeline alone: its producers hand it events, each stamped at or
\* before the present, in any order of arrival
append(event) ==
    /\ session.endTime # NoTime \/ Len(session.events) < MaxTimeline
    /\ session' = add_event(session, event)
    /\ offeredKeys' = offeredKeys \cup OfferedKeys(<<event>>)
    /\ fnOut' = [fn |-> "add_event", before |-> session, event |-> event]
    /\ UNCHANGED <<fnArg, pageVars, contentVars, workerVars, netCount>>

AppendInteraction ==
    \E timestamp \in 0..now, element \in Controls :
        \/ append(createLogEntry("click", element, <<>>, timestamp))
        \/ append(createLogEntry("input", element,
                                  [value |-> getInputValue(element)], timestamp))

AppendNetwork ==
    \E timestamp \in 0..now, url \in {StartUrl, OtherUrl} :
        append(NetworkEvent(timestamp, url))

\* finalize, called at the end of the session and possibly again
CallFinalize ==
    /\ session' = finalize_session(session, now)
    /\ fnOut' = [fn |-> "finalize_session", before |-> session]
    /\ UNCHANGED <<fnArg, pageVars, contentVars, workerVars, offeredKeys, netCount>>

\* the exported document: a projection of the session
ExportView(sess) ==
    [session |-> [startTime |-> sess.startTime, endTime |-> sess.endTime,
                  startUrl |-> sess.startUrl, domain |-> sess.domain],
     events |-> sess.events]

\* ------------------------------------------------------- specification
\* the page of the recorded session: a login form
LoginForm == MkForm(<<MkField(<<"p">>, Password, <<"s">>, 1, 1)>>)

Init ==
    /\ fnArg = MkElement(TagDIV, <<>>, EmptyStr, EmptyStr, 0)
    /\ fnOut = NoCall
    /\ form = LoginForm
    /\ windowWritable \in BOOLEAN
    /\ PipelineInit

Next ==
    \/ handleClick
    \/ handleInput
    \/ handleChange
    \/ handleSubmit
    \/ InvalidateContext
    \/ Tick
    \/ OnMessage
    \/ GetAndClearEvents
    \/ OnResponse
    \/ OnConsoleMessage
    \/ poll_extension_events
    \/ CaptureNetwork
    \/ Finalize

Spec == Init /\ [][Next]_vars

\* generateSelector over the elements of one document
DocInit ==
    /\ fnArg \in Documents(MaxSiblings)
    /\ fnOut = NoCall
    /\ form = MkForm(<<>>)
    /\ windowWritable = TRUE
    /\ PipelineInit

DocNext == CallGenerateSelectorAll

SpecDoc == DocInit /\ [][DocNext]_vars

\* the event handlers alone, on every page of the bounded set
ContentInit ==
    /\ fnArg = MkElement(TagDIV, <<>>, EmptyStr, EmptyStr, 0)
    /\ fnOut = NoCall
    /\ form \in Forms(MaxFields)
    /\ windowWritable = TRUE
    /\ PipelineInit

ContentNext ==
    \/ nCalls < MaxPageEvents /\ handleClick
    \/ nCalls < MaxPageEvents /\ handleInput
    \/ nCalls < MaxPageEvents /\ handleChange
    \/ nCalls < MaxPageEvents /\ handleSubmit

SpecContent == ContentInit /\ [][ContentNext]_vars

\* the event handlers on pages that also carry passwords in their markup
MaskInit ==
    /\ fnArg = MkElement(TagDIV, <<>>, EmptyStr, EmptyStr, 0)
    /\ fnOut = NoCall
    /\ form \in MaskPages(MaxFields)
    /\ windowWritable = TRUE
    /\ PipelineInit

SpecMask == MaskInit /\ [][ContentNext]_vars

\* the content script alone on the login page, with channels that fail
SendNext ==
    \/ handleClick
    \/ handleInput
    \/ handleChange
    \/ handleSubmit
    \/ InvalidateContext
    \/ Tick

SpecSend == Init /\ [][SendNext]_vars

\* the background worker, fed by the content script (clicks on the login
\* page) and by other extension contexts, and read by the consumer with
\* every request type on both channels
WorkerInit ==
    /\ fnArg = MkElement(TagDIV, <<>>, EmptyStr, EmptyStr, 0)
    /\ fnOut = NoCall
    /\ form = LoginForm
    /\ windowWritable = TRUE
    /\ CoreInit
    /\ history = [NoHistory EXCEPT !.on = TRUE]
    /\ session = create_session(StartUrl, 0)

WorkerNext ==
    \/ handleClick
    \/ OtherMessage
    \/ OnMessage
    \/ GetEvents
    \/ ClearEvents
    \/ GetAndClearEvents
    \/ PortMessage
    \/ OnResponse

SpecWorker == WorkerInit /\ [][WorkerNext]_vars

\* the same with a consumer that only drains: interaction messages and
\* getAndClearEvents requests, in any interleaving
DrainNext ==
    \/ handleClick
    \/ handleInput
    \/ handleChange
    \/ handleSubmit
    \/ OnMessage
    \/ GetAndClearEvents
    \/ PortGetAndClearEvents
    \/ OnResponse

SpecDrain == WorkerInit /\ [][DrainNext]_vars

\* the content script and the worker's message listener on the login page,
\* with a clock that advances and channels that fail
ChannelsInit ==
    /\ fnArg = MkElement(TagDIV, <<>>, EmptyStr, EmptyStr, 0)
    /\ fnOut = NoCall
    /\ form = LoginForm
    /\ windowWritable \in BOOLEAN
    /\ CoreInit
    /\ history = [NoHistory EXCEPT !.on = TRUE]
    /\ session = create_session(StartUrl, 0)

ChannelsNext ==
    \/ handleClick
    \/ handleInput
    \/ handleChange
    \/ handleSubmit
    \/ InvalidateContext
    \/ Tick
    \/ OnMessage

SpecChannels == ChannelsInit /\ [][ChannelsNext]_vars

\* the content script on pages whose elements are there at load or inserted
\* later: a form with one text field, the form itself focusable or not
TextForm == MkForm(<<MkField(<<"u">>, <<"t","e","x","t">>, <<"s">>, 1, 1)>>)
DomPages == {TextForm, [TextForm EXCEPT !.attrs = [tabindex |-> <<"0">>]]}

DomInit ==
    /\ fnArg = MkElement(TagDIV, <<>>, EmptyStr, EmptyStr, 0)
    /\ fnOut = NoCall
    /\ form \in DomPages
    /\ windowWritable = TRUE
    /\ PipelineInit

DomNext ==
    \/ OnMutation
    \/ DispatchEvent
    \/ RunListener
    \/ Tick

SpecDom == DomInit /\ [][DomNext]_vars

\* the network producer alone: one request, any URL, any root domain
ScopeInit ==
    /\ fnArg \in ScopeUrls(MaxLabels)
    /\ fnOut = NoCall
    /\ form = MkForm(<<>>)
    /\ windowWritable = TRUE
    /\ CoreInit
    /\ history = NoHistory
    /\ \E root_domain \in RootDomains :
          session = [create_session(StartUrl, 0) EXCEPT !.domain = root_domain]

ScopeNext == CaptureRequest

SpecScope == ScopeInit /\ [][ScopeNext]_vars

\* the session timeline alone, fed directly by its producers
TimelineNext ==
    \/ AppendInteraction
    \/ AppendNetwork
    \/ CallFinalize
    \/ Tick

SpecTimeline == Init /\ [][TimelineNext]_vars

\* ------------------------------------------------ selector properties
\* the class names as authored: the maximal runs of non-whitespace
\* characters of the class attribute, by position
ClassRuns(s) ==
    {<<i, j>> \in (1..Len(s)) \X (1..Len(s)) :
        /\ i <= j
        /\ \A k \in i..j : ~IsWhitespace(s[k])
        /\ (i = 1 \/ IsWhitespace(s[i - 1]))
        /\ (j = Len(s) \/ IsWhitespace(s[j + 1]))}

HasClasses(element) ==
    HasAttribute(element, "class") /\ ClassRuns(GetAttribute(element, "class")) # {}

HasId(element) ==
    HasAttribute(element, "id") /\ GetAttribute(element, "id") # EmptyStr

\* r is tag.class1.class2... for the runs of s from position `from` on
RECURSIVE IsDottedClasses(_, _, _)
IsDottedClasses(r, s, from) ==
    LET runs == {x \in ClassRuns(s) : x[1] >= from} IN
    IF runs = {} THEN r = EmptyStr
    ELSE LET first == CHOOSE x \in runs : \A y \in runs : x[1] <= y[1]
             n == first[2] - first[1] + 1
         IN /\ Len(r) >= n + 1
            /\ r[1] = "."
            /\ SubSeq(r, 2, n + 1) = SubSeq(s, first[1], first[2])
            /\ IsDottedClasses(SubSeq(r, n + 2, Len(r)), s, first[2] + 1)

IsClassSelector(r, element) ==
    LET n == Len(element.tagName) IN
    /\ Len(r) > n
    /\ \A i \in 1..n : r[i] = LowerChar(element.tagName[i])
    /\ IsDottedClasses(SubSeq(r, n + 1, Len(r)), GetAttribute(element, "class"), 1)

\* the 1-based position of the element among the same-tag children of its
\* parent, 1 without a parent
SameTagPosition(element) ==
    IF element.pos = 0 THEN 1
    ELSE Cardinality({i \in 1..element.pos : element.siblings[i] = element.tagName})

SelectorCalled == fnOut.fn = "generateSelector"

C6_Original ==
    (SelectorCalled /\ ~HasId(fnArg) /\ HasClasses(fnArg))
        => IsClassSelector(fnOut.result, fnArg)

\* C6 as amended: the same for every element whose className is a string
\* (an HTML element); an element whose className is not a string (SVG) gets
\* the nth-child selector even when it carries classes.
C6_ClassSelector ==
    (SelectorCalled /\ ~HasId(fnArg) /\ HasClasses(fnArg))
        => IF ClassNameIsString(fnArg)
           THEN IsClassSelector(fnOut.result, fnArg)
           ELSE fnOut.result = ToLowerCase(fnArg.tagName) \o NthChildOpen
                                  \o DecStr(SameTagPosition(fnArg)) \o <<")">>

C6_Witness ==
    /\ SelectorCalled /\ ~HasId(fnArg) /\ fnArg.tagName = TagDIV
    /\ HasClasses(fnArg)
    /\ GetAttribute(fnArg, "class") = <<"b", " ", "a">>
    /\ fnOut.result = <<"d", "i", "v", ".", "b", ".", "a">>

\* C7: an element without an id and with an empty class list gets
\* tag:nth-child(n), n its 1-based position among the same-tag siblings
\* under its parent, 1 without a parent, never 0.
C7_NthChild ==
    (SelectorCalled /\ ~HasId(fnArg) /\ ~HasClasses(fnArg))
        => /\ SameTagPosition(fnArg) >= 1
           /\ fnArg.pos = 0 => SameTagPosition(fnArg) = 1
           /\ fnOut.result = ToLowerCase(fnArg.tagName) \o NthChildOpen
                                 \o DecStr(SameTagPosition(fnArg)) \o <<")">>

C7_Witness ==
    /\ SelectorCalled /\ ~HasId(fnArg) /\ ~HasClasses(fnArg)
    /\ fnArg.tagName = TagINPUT /\ fnArg.siblings = <<TagDIV, TagINPUT>>
    /\ fnArg.pos = 2
    /\ fnOut.result = <<"i","n","p","u","t">> \o NthChildOpen \o <<"1", ")">>

\* C8: the keys of getAttributes' result are exactly the whitelisted names
\* present on the element, each mapped to the element's attribute value.
Whitelist == {"id", "class", "name", "type", "href", "src", "value",
              "placeholder", "data-testid"}

C8_Attributes ==
    (fnOut.fn = "getAttributes")
        => /\ DOMAIN fnOut.result = Whitelist \cap DOMAIN fnArg.attrs
           /\ \A a \in DOMAIN fnOut.result : fnOut.result[a] = fnArg.attrs[a]

C8_Witness ==
    /\ fnOut.fn = "getAttributes"
    /\ DOMAIN fnArg.attrs = {"onclick", "href"}
    /\ DOMAIN fnOut.result = {"href"}

\* C9: text of at most 100 characters is returned unchanged; longer text is
\* returned as its first 100 characters followed by "...".
C9_Truncation ==
    (fnOut.fn = "getInnerText" /\ fnArg.innerText # Undefined)
        => LET t == fnArg.innerText
               r == fnOut.result
           IN IF Len(t) <= 100 THEN r = t
              ELSE /\ Len(r) = 103
                   /\ \A i \in 1..100 : r[i] = t[i]
                   /\ \A i \in 101..103 : r[i] = "."

C9_Witness ==
    /\ fnOut.fn = "getInnerText" /\ fnArg.innerText # Undefined
    /\ Len(fnArg.innerText) = 101 /\ Len(fnOut.result) = 103

\* no two elements of the document carry the same non-empty id
IdsUnique ==
    \A i, j \in DOMAIN fnArg :
        (i # j /\ HasAttribute(fnArg[i], "id") /\ HasAttribute(fnArg[j], "id"))
            => GetAttribute(fnArg[i], "id") # GetAttribute(fnArg[j], "id")

\* C21: generateSelector produces a unique selector: any two distinct
\* elements of the same document get different strings (and the same element
\* the same string on every call, which holds of any function of the
\* element); stated for the documents that keep their ids unique
C21_UniqueSelector ==
    (fnOut.fn = "generateSelectorAll" /\ IdsUnique) =>
        \A i, j \in DOMAIN fnArg :
            i # j => fnOut.result[i] # fnOut.result[j]

\* ----------------------------------------------- content script properties
\* the log entries on the console, parsed back
ConsoleEntries ==
    {JSONParse(consoleLines[i].json) :
        i \in {j \in DOMAIN consoleLines : consoleLines[j].prefix = EventPrefix}}

\* every copy of a log entry that sits on one of the three channels
ChannelEntries ==
    ConsoleEntries
    \cup {windowEvents.items[i] : i \in DOMAIN windowEvents.items}
    \cup {runtimeMsgs[i].data : i \in DOMAIN runtimeMsgs}

\* the controls of the form a record can stem from: same selector
TargetsOf(entry) ==
    {f \in Controls : generateSelector(f) = entry.selector}

\* C1: every input or change record whose target is a password-typed field
\* has value null, whatever the field contains.
C1_PasswordValueNull ==
    \A e \in ChannelEntries :
        (e.event \in {"input", "change"} /\ \E f \in TargetsOf(e) : f.type = Password)
            => e.value = Null

C1_Witness ==
    \E e \in ChannelEntries :
        /\ e.event = "input"
        /\ \E f \in TargetsOf(e) : f.type = Password /\ f.value = <<"s">>
        /\ e.value = Null

\* C2: in every submit record, each password-typed field that has an entry
\* in formValues appears there as the redaction marker, for every arrangement
\* of the form's fields.
C2_PasswordsRedacted ==
    \A e \in ChannelEntries :
        e.event = "submit" =>
            \A f \in Controls :
                (f.type = Password /\ GetAttribute(f, "name") \in DOMAIN e.formValues)
                    => e.formValues[GetAttribute(f, "name")] = Redacted

\* the number of log entry lines on the console
EventLineCount ==
    Cardinality({i \in DOMAIN consoleLines : consoleLines[i].prefix = EventPrefix})

\* what one handler run leaves on the channels, whatever failed
SendEventContained ==
    nCalls' = nCalls + 1 =>
        /\ Len(consoleLines') > Len(consoleLines)
        /\ SubSeq(consoleLines', 1, Len(consoleLines)) = consoleLines
        /\ consoleLines'[Len(consoleLines')].prefix = EventPrefix
        /\ LET entry == JSONParse(consoleLines'[Len(consoleLines')].json) IN
           /\ windowWritable => windowEvents' = WindowPush(windowEvents, entry)
           /\ ~windowWritable => windowEvents' = windowEvents
           /\ contextValid =>
                 runtimeMsgs' = Append(runtimeMsgs, [type |-> "interaction", data |-> entry])
           /\ ~contextValid => runtimeMsgs' = runtimeMsgs
        /\ uncaught' = uncaught

\* C4: a throwing chrome.runtime.sendMessage or window buffer is contained:
\* the entry still reaches the console and every channel that works, no
\* exception leaves sendEvent, and every later handler run is captured too.
C4_FailureContained ==
    /\ [](uncaught = 0 /\ EventLineCount = nCalls)
    /\ [][SendEventContained]_vars

C4_Witness ==
    /\ ~contextValid /\ windowWritable
    /\ nCalls = 2 /\ runtimeMsgs = <<>>
    /\ Len(consoleLines) = 4 /\ consoleLines[1] = ConsoleDebug
    /\ consoleLines[3] = ConsoleDebug
    /\ Len(windowEvents.items) = 2
    /\ windowEvents.items[2] = JSONParse(consoleLines[4].json)

\* ------------------------------------------------- timeline properties
Interactions(events) == SelectSeq(events, LAMBDA e : e.type = "interaction")

\* C3: the timeline holds exactly one entry for each content key
\* (timestamp, selector, event kind) that any channel delivered while the
\* session was open: none is lost, none appears twice.
C3_Deduplicated ==
    LET tl == Interactions(session.events) IN
    /\ \A i, j \in DOMAIN tl : EventKey(tl[i]) = EventKey(tl[j]) => i = j
    /\ {EventKey(tl[i]) : i \in DOMAIN tl} = offeredKeys

AllChannelsDrained ==
    /\ runtimeMsgs = <<>> /\ capturedEvents = <<>> /\ response = NoResponse
    /\ consoleLines = <<>> /\ windowEvents.items = <<>>

C3_Witness ==
    /\ contextValid /\ windowWritable /\ nCalls = 2
    /\ AllChannelsDrained
    /\ session.endTime = NoTime
    /\ Cardinality(offeredKeys) = 2
    /\ Len(Interactions(session.events)) = 2

SortedByTimestamp(events) ==
    \A i, j \in DOMAIN events : i < j => events[i].timestamp <= events[j].timestamp

Occurrences(events, e) == Cardinality({i \in DOMAIN events : events[i] = e})

SameEvents(a, b) ==
    /\ Len(a) = Len(b)
    /\ \A i \in DOMAIN a : Occurrences(a, a[i]) = Occurrences(b, a[i])

\* C10: after finalize the events are in ascending timestamp order, and
\* they are exactly the events the timeline held when finalize began; the
\* export shows them as they are.
C10_SortedAtFinalize ==
    /\ [](session.endTime # NoTime =>
            /\ SortedByTimestamp(session.events)
            /\ ExportView(session).events = session.events)
    /\ [][(session.endTime = NoTime /\ session'.endTime # NoTime)
            => SameEvents(session.events, session'.events)]_vars

C10_Witness ==
    /\ session.endTime # NoTime
    /\ Len(session.events) = 3
    /\ Len(Interactions(session.events)) = 2
    /\ session.events[1].timestamp = 0
    /\ session.events[2].type = "network"
    /\ session.events[3].timestamp = 1

\* the last call was the finalize that closed the session
Finalized == fnOut.fn = "finalize_session" /\ fnOut.before.endTime = NoTime

\* the events of one kind and one timestamp, in the order of the sequence
OfKindAt(events, kind, timestamp) ==
    SelectSeq(events, LAMBDA e : e.type = kind /\ e.timestamp = timestamp)

C12_FinalizeCloses ==
    [][session.endTime # NoTime => session' = session]_vars

C12_Witness ==
    /\ fnOut.fn = "finalize_session"
    /\ fnOut.before.endTime # NoTime
    /\ now > session.endTime
    /\ session = fnOut.before
    /\ Len(session.events) = 2

\* ------------------------------------------------ domain scope properties
\* host h lies under domain d: h is some prefix, a dot, and d
IsProperSubdomain(h, d) ==
    \E k \in 1..Len(h) : h[k] = "." /\ SubSeq(h, k + 1, Len(h)) = d

InScopeAsStated(u, d) ==
    LET h == Hostname(u) IN
    /\ h # Null
    /\ IF _is_ip_address(h) \/ h = Localhost
       THEN h = d
       ELSE h = d \/ IsProperSubdomain(h, d)

\* C13: a request is recorded iff its host equals the root domain or ends
\* with "." and the root domain, an IP literal or localhost only on exact
\* match; a request out of scope, or with a URL that has no host, is not
\* added to the timeline and raises nothing.
C13_DomainScope ==
    fnOut.fn = "is_subdomain_of" =>
        /\ uncaught = 0
        /\ IF InScopeAsStated(fnArg, session.domain)
           THEN fnOut.result /\ session.events = <<NetworkEvent(now, fnArg)>>
           ELSE ~fnOut.result /\ session.events = <<>>

C13_Witness ==
    /\ fnOut.fn = "is_subdomain_of"
    /\ session.domain = <<"d", ".", "a", "d">>
    /\ Hostname(fnArg) = <<"a", "d", ".", "d", ".", "a", "d">>
    /\ Len(session.events) = 1

\* ------------------------------------------------ listener properties
\* the elements of the page a record can stem from: same selector and tag
RecordTargets(entry) ==
    {element \in Targets :
        generateSelector(element) = entry.selector /\ element.tagName = entry.tagName}

InteractiveSelector(element) ==
    \/ element.tagName \in {<<"A">>, <<"B","U","T","T","O","N">>, <<"I","N","P","U","T">>,
                             <<"S","E","L","E","C","T">>,
                             <<"T","E","X","T","A","R","E","A">>}
    \/ "onclick" \in DOMAIN element.attrs
    \/ "role" \in DOMAIN element.attrs /\ element.attrs["role"] = <<"b","u","t","t","o","n">>
    \/ "tabindex" \in DOMAIN element.attrs

\* C14: every click record stems from a click on an interactive element;
\* a click on any other element leaves no record.
C14_ClicksOnInteractive ==
    \A e \in ChannelEntries :
        e.event = "click" => \A element \in RecordTargets(e) : InteractiveSelector(element)

\* C16: every dispatched DOM event of a captured kind has produced exactly
\* one log entry once its listeners have run, whether or not its target or
\* the elements around it went through the MutationObserver.
C16_OneEntryPerEvent ==
    dispatch.pending = <<>> => nCalls = dispatch.count

\* ------------------------------------------------ record shape properties
\* C15: in every emitted record, value is non-null only for input and
\* change, formValues is present only for submit; a click record has
\* neither, and a submit record has value null.
C15_ValueByKind ==
    \A e \in ChannelEntries :
        /\ e.value # Null => e.event \in {"input", "change"}
        /\ "formValues" \in DOMAIN e => e.event = "submit"
        /\ e.event = "click" => (e.value = Null /\ "formValues" \notin DOMAIN e)
        /\ e.event = "submit" => ("formValues" \in DOMAIN e /\ e.value = Null)

C15_Witness ==
    \E e \in ChannelEntries :
        /\ e.event = "click"
        /\ \E f \in TargetsOf(e) : f.type # Password /\ f.value = <<"s">>
        /\ e.value = Null
        /\ "formValues" \notin DOMAIN e

\* C20: every input or change record of a field that is not password-typed
\* carries the field's current value, the empty string included.
C20_ValueIsFieldValue ==
    \A e \in ChannelEntries :
        e.event \in {"input", "change"} =>
            \A f \in TargetsOf(e) : f.type # Password => e.value = f.value

\* ------------------------------------------------ masking properties
\* the element of a page: 0 the form, i its i-th control
ElementAt(page, node) == IF node = 0 THEN page ELSE page.descendants[node]

\* the field with another content, in its markup too where the page
\* carries it there
WithContent(field, content) ==
    [field EXCEPT !.value = content,
                  !.attrs = IF "value" \in DOMAIN field.attrs
                            THEN [field.attrs EXCEPT !["value"] = content]
                            ELSE field.attrs]

PasswordNodes(page) ==
    {i \in DOMAIN page.descendants : page.descendants[i].type = Password}

\* the pages of the runs that differ from this one only in the content of
\* the password field
RunsDifferingIn(page, node) ==
    {[page EXCEPT !.descendants[node] = WithContent(@, content)] :
        content \in FieldValues}

\* the handlers that can run for an event on the node
EventsOn(node) == IF node = 0 THEN {"click", "submit"} ELSE {"click", "input", "change"}

\* C22: passwords are masked in the whole record: in two runs that differ
\* only in the content of a password field, every record emitted for an
\* event on that field or on its form is the same in every field other
\* than timestamp, attributes and innerText included.
C22_PasswordsMasked ==
    \A e \in ChannelEntries :
        \A field \in PasswordNodes(form) :
            \A node \in {0, field} :
                (e.event \in EventsOn(node)
                 /\ e = LogEntryAt(e.event, ElementAt(form, node), e.timestamp))
                    => \A other \in RunsDifferingIn(form, field) :
                           LogEntryAt(e.event, ElementAt(other, node), e.timestamp) = e

\* ------------------------------------------------ worker properties
\* the log entries the content script sent, in the order of the handler runs
Sent == [i \in DOMAIN consoleLines |-> JSONParse(consoleLines[i].json)]

\* the interaction messages still on their way to the worker
InFlight ==
    LET msgs == SelectSeq(runtimeMsgs, LAMBDA m : m.type = "interaction")
    IN [i \in DOMAIN msgs |-> msgs[i].data]

\* the interaction events the worker has received so far
ReceivedSoFar == SubSeq(Sent, 1, Len(Sent) - Len(InFlight))

\* an event as the content script sent it, without the tab's id and url
Untag(event) == [k \in DOMAIN event \ {"tabId", "tabUrl"} |-> event[k]]
UntagAll(events) == [i \in DOMAIN events |-> Untag(events[i])]

\* C17: under any interleaving of interaction messages and getAndClearEvents
\* requests, on either channel, the events of all responses, followed by
\* the buffer, are the received events in arrival order, each once; and the
\* buffer is empty right after a response.
C17_DrainExactlyOnce ==
    /\ UntagAll(history.returned \o capturedEvents) = ReceivedSoFar
    /\ UntagAll(history.returned \o capturedEvents) \o InFlight = Sent
    /\ history.last = "getAndClearEvents" => capturedEvents = <<>>

C17_Witness ==
    /\ history.last = "getAndClearEvents" /\ history.via = "port"
    /\ Len(history.returned) = 2
    /\ response # NoResponse
    /\ response.events = <<history.returned[2]>>
    /\ capturedEvents = <<>>
    /\ runtimeMsgs = <<>>

\* the step is the handling of a request of one of the types
RequestStep(types) ==
    response = NoResponse /\ response' # NoResponse /\ history'.last \in types

SinceLastClear == SubSeq(ReceivedSoFar, history.cleared + 1, Len(ReceivedSoFar))

IsPrefixOf(a, b) == Len(a) <= Len(b) /\ SubSeq(b, 1, Len(a)) = a

\* C18: a getEvents request leaves capturedEvents as it is and returns the
\* events received since the last clear, in arrival order; events leave the
\* buffer only in a clearEvents or getAndClearEvents step, and then all do.
C18_GetEventsKeeps ==
    [][/\ RequestStep({"getEvents"}) =>
            /\ capturedEvents' = capturedEvents
            /\ UntagAll(response'.events) = SinceLastClear
       /\ RequestStep({"clearEvents", "getAndClearEvents"}) => capturedEvents' = <<>>
       /\ ~IsPrefixOf(capturedEvents, capturedEvents') =>
            /\ RequestStep({"clearEvents", "getAndClearEvents"})
            /\ capturedEvents' = <<>>]_vars

C18_Witness ==
    /\ history.last = "getEvents"
    /\ history.cleared = 1
    /\ response # NoResponse
    /\ Len(capturedEvents) = 1
    /\ response.events = capturedEvents
    /\ UntagAll(capturedEvents) = <<Sent[2]>>

\* the step is the handling of the next runtime message
MessageStep == runtimeMsgs # <<>> /\ runtimeMsgs' = Tail(runtimeMsgs)

\* C19: an interaction message appends exactly one event, the message's
\* data, to the end of capturedEvents, also when the relay throws; a message
\* of another type leaves capturedEvents alone; so between clears the buffer
\* is as long as the number of interaction messages received.
C19_OneEventPerMessage ==
    /\ [](Len(capturedEvents) = Len(ReceivedSoFar) - history.cleared)
    /\ [][MessageStep =>
            IF Head(runtimeMsgs).type = "interaction"
            THEN /\ Len(capturedEvents') = Len(capturedEvents) + 1
                 /\ SubSeq(capturedEvents', 1, Len(capturedEvents)) = capturedEvents
                 /\ Untag(capturedEvents'[Len(capturedEvents')]) = Head(runtimeMsgs).data
            ELSE capturedEvents' = capturedEvents]_vars

C19_Witness ==
    /\ history.relayThrew
    /\ history.last = "newInteraction"
    /\ history.cleared = 0
    /\ Len(capturedEvents) = 2
    /\ runtimeMsgs = <<>>

\* ------------------------------------------------ channel properties
\* the entries passed to sendEvent, in the order of the calls: the event
\* lines of the console, parsed back
EventLines == SelectSeq(consoleLines, LAMBDA line : line.prefix = EventPrefix)
SentEntries == [i \in DOMAIN EventLines |-> JSONParse(EventLines[i].json)]

KeysOf(events) == [i \in DOMAIN events |-> EventKey(events[i])]

\* the runtime copies: those the worker stored, then those on their way
RuntimeCopies == capturedEvents \o InFlight

\* C23: for every occurrence passed to sendEvent, the copies on the runtime
\* channel, the console and the window buffer, and the copy the worker
\* stores with tabId and tabUrl added, carry the same timestamp, selector
\* and event kind; the window buffer holds the entries in the order of the
\* sendEvent calls, and the content script only ever appends to it.
C23_SameOnEveryChannel ==
    /\ [](/\ Len(SentEntries) = nCalls
          /\ windowWritable => KeysOf(windowEvents.items) = KeysOf(SentEntries)
          /\ ~windowWritable => windowEvents.items = <<>>
          /\ IsPrefixOf(KeysOf(RuntimeCopies), KeysOf(SentEntries))
          /\ contextValid => Len(RuntimeCopies) = nCalls
          /\ \A i \in DOMAIN capturedEvents :
                /\ DOMAIN capturedEvents[i] = DOMAIN SentEntries[i] \cup {"tabId", "tabUrl"}
                /\ capturedEvents[i].tabId = TabId
                /\ capturedEvents[i].tabUrl = TabUrl)
    /\ [][IsPrefixOf(windowEvents.items, windowEvents'.items)]_vars

C23_Witness ==
    /\ contextValid /\ windowWritable
    /\ nCalls = 2
    /\ Len(windowEvents.items) = 2
    /\ EventKey(windowEvents.items[1]) # EventKey(windowEvents.items[2])
    /\ windowEvents.items[1].timestamp = 0
    /\ windowEvents.items[2].timestamp = 1
    /\ windowEvents.items[2].event = "submit"
    /\ Len(capturedEvents) = 1 /\ Len(runtimeMsgs) = 1
    /\ EventKey(capturedEvents[1]) = EventKey(windowEvents.items[1])
    /\ EventKey(runtimeMsgs[1].data) = EventKey(SentEntries[2])

====
